---- MODULE Spec2Model ----
(***************************************************************************)
(* Model of backend/tensor-logic/src/main.rs: an axum Router that nests a  *)
(* ServeDir over dist/assets at /assets and uses get(serve_index) as its   *)
(* fallback.  Requests are handled concurrently; a request's handling is   *)
(* suspended between being received, being routed and its filesystem read. *)
(* The filesystem (dist/index.html and dist/assets) is changed only by the *)
(* environment.  File contents and response bodies are byte sequences.     *)
(***************************************************************************)
EXTENDS Integers, Sequences, FiniteSets, TLC

\* Number of requests that can be in flight at once.
MaxReqs == 2

Reqs == 1..MaxReqs

\* HTTP methods of inbound requests.
Methods == {"GET", "HEAD", "POST"}

\* Request paths, as their segments: "/", "/assets/app.js", "/assets.js".
Paths == {<<>>, <<"assets", "app.js">>, <<"assets.js">>}

\* File names the environment may create in dist/assets.
AssetNames == {"app.js"}

\* Contents the environment may write to dist/index.html:
\* "ok", "e-acute" (a two-byte UTF-8 character), and a byte that is not UTF-8.
IndexContents == {<<111, 107>>, <<195, 169>>, <<255>>}

\* Contents the environment may write to a file of dist/assets: "1;" and binary.
AssetContents == {<<49, 59>>, <<255, 0>>}

\* The states of a path on disk.
Absent == [kind |-> "absent", bytes |-> <<>>]
Denied == [kind |-> "denied", bytes |-> <<>>]
File(c) == [kind |-> "file", bytes |-> c]

VARIABLES index, assets, req

vars == <<index, assets, req>>

\* ---------------------------------------------------------------- helpers

Cont(b) == b >= 128 /\ b <= 191

\* std::str::from_utf8, the validation tokio::fs::read_to_string applies.
RECURSIVE IsUtf8(_)
IsUtf8(s) ==
    IF s = <<>> THEN TRUE
    ELSE LET b == s[1]
             n == Len(s)
             rest(k) == SubSeq(s, k + 1, n)
         IN  IF b <= 127 THEN IsUtf8(rest(1))
             ELSE IF b >= 194 /\ b <= 223
                  THEN n >= 2 /\ Cont(s[2]) /\ IsUtf8(rest(2))
             ELSE IF b >= 224 /\ b <= 239
                  THEN /\ n >= 3
                       /\ Cont(s[2]) /\ Cont(s[3])
                       /\ (b = 224 => s[2] >= 160)
                       /\ (b = 237 => s[2] <= 159)
                       /\ IsUtf8(rest(3))
             ELSE IF b >= 240 /\ b <= 244
                  THEN /\ n >= 4
                       /\ Cont(s[2]) /\ Cont(s[3]) /\ Cont(s[4])
                       /\ (b = 240 => s[2] >= 144)
                       /\ (b = 244 => s[2] <= 143)
                       /\ IsUtf8(rest(4))
             ELSE FALSE

\* A read_to_string that accepts ASCII only.
ReadToStringAscii(f) ==
    IF f.kind = "file" /\ \A i \in 1..Len(f.bytes) : f.bytes[i] <= 127
    THEN [ok |-> TRUE, content |-> f.bytes]
    ELSE [ok |-> FALSE, content |-> <<>>]

\* tokio::fs::read_to_string(&index_path): Ok(content) or Err(_).
ReadToString(f) ==
    IF f.kind = "file" /\ IsUtf8(f.bytes)
    THEN [ok |-> TRUE, content |-> f.bytes]
    ELSE [ok |-> FALSE, content |-> <<>>]

\* The bytes of "<h1>Error: index.html not found</h1>".
ErrorBody ==
    <<60, 104, 49, 62, 69, 114, 114, 111, 114, 58, 32, 105, 110, 100, 101, 120,
      46, 104, 116, 109, 108, 32, 110, 111, 116, 32, 102, 111, 117, 110, 100,
      60, 47, 104, 49, 62>>

Response(s, b) == [status |-> s, body |-> b]

NoResponse == Response(0, <<>>)

\* Html(body) as a response: status 200 with that body.
Html(b) == Response(200, b)

\* ----------------------------------------------------------------- router

\* What nest_service would match if it compared the path's text, not its segments.
NestMatchesPrefix(p) == Len(p) >= 1 /\ p[1] \in {"assets", "assets.js"}

\* nest_service("/assets", ..): the route matches /assets and everything below it.
NestMatches(p) == Len(p) >= 1 /\ p[1] = "assets"

\* The nested service sees the path with the /assets prefix stripped.
StripPrefix(p) == Tail(p)

\* ServeDir::new(static_dir.join("assets")): the file a stripped path names.  The
\* directory itself is served through its index.html; dist/assets is flat.
ResolveAsset(rel, dir) ==
    LET name == IF rel = <<>> THEN "index.html" ELSE rel[1]
    IN  IF Len(rel) <= 1 /\ name \in DOMAIN dir THEN dir[name] ELSE Absent

\* The router sends no body in answer to HEAD.
StripBody(m, resp) == IF m = "HEAD" THEN Response(resp.status, <<>>) ELSE resp

\* A ServeDir that reads the file as text.
ServeDirResponseText(m, f) ==
    IF ReadToString(f).ok
    THEN StripBody(m, Response(200, f.bytes))
    ELSE Response(404, <<>>)

\* ServeDir's answer to GET or HEAD: the file's bytes, or its own 404.
ServeDirResponse(m, f) ==
    IF f.kind = "file"
    THEN StripBody(m, Response(200, f.bytes))
    ELSE Response(404, <<>>)

\* A serve_index that reports the read error as a server error.
serve_index_500(f) ==
    LET res == ReadToString(f)
    IN  IF res.ok THEN Html(res.content) ELSE Response(500, <<>>)

\* serve_index: the match on read_to_string's result.
serve_index(f) ==
    LET res == ReadToString(f)
    IN  IF res.ok THEN Html(res.content) ELSE Html(ErrorBody)

\* The whole router applied to one request against a filesystem.
Serve(m, p, idx, dir) ==
    IF NestMatches(p)
    THEN IF m \in {"GET", "HEAD"}
         THEN ServeDirResponse(m, ResolveAsset(StripPrefix(p), dir))
         ELSE Response(405, <<>>)
    ELSE IF m \in {"GET", "HEAD"}
         THEN StripBody(m, serve_index(idx))
         ELSE Response(405, <<>>)

\* ------------------------------------------------------------------ state

Idle ==
    [pc |-> "idle", method |-> "none", path |-> <<>>, handledBy |-> {},
     resp |-> NoResponse, stale |-> FALSE]

FileStates(cs) == {Absent} \cup {File(c) : c \in cs}

TypeOK ==
    /\ index \in FileStates(IndexContents) \cup {Denied}
    /\ assets \in [AssetNames -> FileStates(AssetContents)]
    /\ \A r \in Reqs :
          /\ req[r].pc \in {"idle", "recv", "asset_read", "index_read", "done"}
          /\ req[r].handledBy \subseteq {"asset", "fallback"}

\* The deployed layout: dist/index.html and the files of dist/assets exist.
Init ==
    /\ index = File(<<111, 107>>)
    /\ assets = [n \in AssetNames |-> File(<<49, 59>>)]
    /\ req = [r \in Reqs |-> Idle]

\* A finished request whose answer was computed from the files as they are now.
MarkStale(q) ==
    [r \in Reqs |-> IF q[r].pc = "done" THEN [q[r] EXCEPT !.stale = TRUE] ELSE q[r]]

\* ---------------------------------------------------------------- requests

\* A request arrives on a connection.
Receive(r, m, p) ==
    /\ req[r].pc = "idle"
    /\ req' = [req EXCEPT ![r] = [Idle EXCEPT !.pc = "recv", !.method = m, !.path = p]]
    /\ UNCHANGED <<index, assets>>

\* The /assets route takes the request; ServeDir answers GET and HEAD only.
RouteAssets(r) ==
    /\ req[r].pc = "recv"
    /\ NestMatches(req[r].path)
    /\ req' = [req EXCEPT ![r] =
                  IF req[r].method \in {"GET", "HEAD"}
                  THEN [@ EXCEPT !.pc = "asset_read", !.handledBy = @ \cup {"asset"}]
                  ELSE [@ EXCEPT !.pc = "done", !.handledBy = @ \cup {"asset"},
                                 !.resp = Response(405, <<>>)]]
    /\ UNCHANGED <<index, assets>>

\* A fallback registered with any(serve_index).
RouteFallbackAny(r) ==
    /\ req[r].pc = "recv"
    /\ ~NestMatches(req[r].path)
    /\ req' = [req EXCEPT ![r] =
                  [@ EXCEPT !.pc = "index_read", !.handledBy = @ \cup {"fallback"}]]
    /\ UNCHANGED <<index, assets>>

\* No route matches: the fallback get(serve_index) takes the request.
RouteFallback(r) ==
    /\ req[r].pc = "recv"
    /\ ~NestMatches(req[r].path)
    /\ req' = [req EXCEPT ![r] =
                  IF req[r].method \in {"GET", "HEAD"}
                  THEN [@ EXCEPT !.pc = "index_read", !.handledBy = @ \cup {"fallback"}]
                  ELSE [@ EXCEPT !.pc = "done", !.handledBy = @ \cup {"fallback"},
                                 !.resp = Response(405, <<>>)]]
    /\ UNCHANGED <<index, assets>>

\* A ServeDir whose missing files are passed on to serve_index.
ServeDirReadFallthrough(r) ==
    /\ req[r].pc = "asset_read"
    /\ LET f == ResolveAsset(StripPrefix(req[r].path), assets)
       IN  req' = [req EXCEPT ![r] =
                      IF f.kind = "file"
                      THEN [@ EXCEPT !.pc = "done",
                                     !.resp = ServeDirResponse(req[r].method, f)]
                      ELSE [@ EXCEPT !.pc = "done", !.handledBy = @ \cup {"fallback"},
                                     !.resp = StripBody(req[r].method, serve_index(index))]]
    /\ UNCHANGED <<index, assets>>

\* ServeDir opens the file the path names and answers.
ServeDirRead(r) ==
    /\ req[r].pc = "asset_read"
    /\ req' = [req EXCEPT ![r] =
                  [@ EXCEPT !.pc = "done",
                            !.resp = ServeDirResponse(req[r].method,
                                        ResolveAsset(StripPrefix(req[r].path), assets))]]
    /\ UNCHANGED <<index, assets>>

\* The other requests that already hold an entry document.
Cached(r) ==
    {q \in Reqs \ {r} : /\ req[q].pc = "done"
                        /\ req[q].handledBy = {"fallback"}
                        /\ req[q].method = "GET"}

\* A serve_index that answers from the document an earlier request read.
CallServeIndexCached(r) ==
    /\ req[r].pc = "index_read"
    /\ LET out == IF Cached(r) = {} THEN serve_index(index)
                  ELSE req[CHOOSE q \in Cached(r) : TRUE].resp
       IN  req' = [req EXCEPT ![r] =
                      [@ EXCEPT !.pc = "done", !.resp = StripBody(req[r].method, out)]]
    /\ UNCHANGED <<index, assets>>

\* A serve_index whose read fails while another request is reading.
CallServeIndexShared(r) ==
    /\ req[r].pc = "index_read"
    /\ LET busy == \E q \in Reqs \ {r} : req[q].pc = "index_read"
           out == IF busy THEN Html(ErrorBody) ELSE serve_index(index)
       IN  req' = [req EXCEPT ![r] =
                      [@ EXCEPT !.pc = "done", !.resp = StripBody(req[r].method, out)]]
    /\ UNCHANGED <<index, assets>>

\* A serve_index that waits for the reads of the requests before it.
CallServeIndexLocked(r) ==
    /\ req[r].pc = "index_read"
    /\ \A q \in Reqs : q < r => req[q].pc # "index_read"
    /\ req' = [req EXCEPT ![r] =
                  [@ EXCEPT !.pc = "done",
                            !.resp = StripBody(req[r].method, serve_index(index))]]
    /\ UNCHANGED <<index, assets>>

\* A serve_index that writes the error page to disk when the document is missing.
CallServeIndexCreate(r) ==
    /\ req[r].pc = "index_read"
    /\ req' = [req EXCEPT ![r] =
                  [@ EXCEPT !.pc = "done",
                            !.resp = StripBody(req[r].method, serve_index(index))]]
    /\ index' = IF index.kind = "absent" THEN File(ErrorBody) ELSE index
    /\ UNCHANGED assets

\* serve_index runs: one read of dist/index.html, answered at once.
CallServeIndex(r) ==
    /\ req[r].pc = "index_read"
    /\ req' = [req EXCEPT ![r] =
                  [@ EXCEPT !.pc = "done",
                            !.resp = StripBody(req[r].method, serve_index(index))]]
    /\ UNCHANGED <<index, assets>>

\* The response has been written; the connection slot takes the next request.
Release(r) ==
    /\ req[r].pc = "done"
    /\ req' = [req EXCEPT ![r] = Idle]
    /\ UNCHANGED <<index, assets>>

\* ------------------------------------------------------------- environment

WriteIndex(c) ==
    /\ index' = File(c)
    /\ index' # index
    /\ req' = MarkStale(req)
    /\ UNCHANGED assets

DeleteIndex ==
    /\ index.kind # "absent"
    /\ index' = Absent
    /\ req' = MarkStale(req)
    /\ UNCHANGED assets

DenyIndex ==
    /\ index.kind = "file"
    /\ index' = Denied
    /\ req' = MarkStale(req)
    /\ UNCHANGED assets

WriteAsset(n, c) ==
    /\ assets' = [assets EXCEPT ![n] = File(c)]
    /\ assets' # assets
    /\ req' = MarkStale(req)
    /\ UNCHANGED index

DeleteAsset(n) ==
    /\ assets[n].kind # "absent"
    /\ assets' = [assets EXCEPT ![n] = Absent]
    /\ req' = MarkStale(req)
    /\ UNCHANGED index

Next ==
    \/ \E r \in Reqs, m \in Methods, p \in Paths : Receive(r, m, p)
    \/ \E r \in Reqs : RouteAssets(r)
    \/ \E r \in Reqs : RouteFallback(r)
    \/ \E r \in Reqs : ServeDirRead(r)
    \/ \E r \in Reqs : CallServeIndex(r)
    \/ \E r \in Reqs : Release(r)
    \/ \E c \in IndexContents : WriteIndex(c)
    \/ DeleteIndex
    \/ DenyIndex
    \/ \E n \in AssetNames, c \in AssetContents : WriteAsset(n, c)
    \/ \E n \in AssetNames : DeleteAsset(n)

Spec == Init /\ [][Next]_vars

\* ------------------------------------------------------------- properties

Done(r) == req[r].pc = "done"

\* r has its response and no file has changed since r read the disk.
Fresh(r) == Done(r) /\ ~req[r].stale

\* The path is /assets or lies below it.
UnderAssets(p) == p # <<>> /\ Head(p) = "assets"

\* The path is /assets/f for a file f that dist/assets does not hold.
NamesMissingAsset(p) ==
    UnderAssets(p) /\ Len(p) = 2 /\ p[2] \in AssetNames /\ assets[p[2]].kind = "absent"

\* The path is /assets/f for a file f that dist/assets holds.
NamesAsset(p) ==
    UnderAssets(p) /\ Len(p) = 2 /\ p[2] \in AssetNames /\ assets[p[2]].kind = "file"

\* dist/index.html cannot be read into a string.
Unreadable(f) == f.kind # "file" \/ ~IsUtf8(f.bytes)

\* The body of the entry document as the fallback presents it.
EntryDocument(f) == IF Unreadable(f) THEN ErrorBody ELSE f.bytes

C2_AlwaysErrorBody ==
    \A r \in Reqs :
        (/\ Fresh(r) /\ req[r].handledBy = {"fallback"}
         /\ req[r].method \in {"GET", "HEAD"} /\ Unreadable(index))
            => req[r].resp = Response(200, ErrorBody)

\* C2 amended: with the entry document unreadable, a GET that reaches serve_index
\* gets status 200 with exactly the error body, and a HEAD gets status 200 with
\* an empty body; the failure never becomes another status.
C2_ErrorPage ==
    \A r \in Reqs :
        (/\ Fresh(r) /\ req[r].handledBy = {"fallback"}
         /\ req[r].method \in {"GET", "HEAD"} /\ Unreadable(index))
            => req[r].resp = Response(200, IF req[r].method = "GET"
                                           THEN ErrorBody ELSE <<>>)

C2_Witness ==
    \E r \in Reqs :
        /\ Fresh(r) /\ req[r].handledBy = {"fallback"} /\ req[r].method = "GET"
        /\ index = Denied
        /\ req[r].resp = Response(200, ErrorBody)

\* C3 as stated: a GET outside /assets gets status 200 with the contents of
\* index.html whenever the file exists, whatever its contents.
C3_AnyContents ==
    \A r \in Reqs :
        (/\ Fresh(r) /\ req[r].method = "GET" /\ ~UnderAssets(req[r].path)
         /\ index.kind = "file")
            => req[r].resp = Response(200, index.bytes)

\* C3 amended: a GET outside /assets gets status 200 with the contents of
\* index.html whenever the file can be read and its contents are valid UTF-8.
C3_Utf8Contents ==
    \A r \in Reqs :
        (/\ Fresh(r) /\ req[r].method = "GET" /\ ~UnderAssets(req[r].path)
         /\ index.kind = "file" /\ IsUtf8(index.bytes))
            => req[r].resp = Response(200, index.bytes)

C3_Witness ==
    \E r \in Reqs :
        /\ Fresh(r) /\ req[r].method = "GET" /\ req[r].path = <<"assets.js">>
        /\ index = File(<<195, 169>>)
        /\ req[r].resp = Response(200, <<195, 169>>)

\* C4 as stated: whatever its method, a request outside /assets gets status 200
\* with the entry document (or the error body).
C4_AnyMethod ==
    \A r \in Reqs :
        (Fresh(r) /\ ~UnderAssets(req[r].path))
            => req[r].resp = Response(200, EntryDocument(index))

\* C4 amended: outside /assets a GET gets status 200 with the entry document (or
\* the error body), a HEAD gets status 200 with an empty body, and every other
\* method gets status 405 with an empty body.
C4_GetHeadOnly ==
    \A r \in Reqs :
        (Fresh(r) /\ ~UnderAssets(req[r].path))
            => req[r].resp =
                  IF req[r].method = "GET" THEN Response(200, EntryDocument(index))
                  ELSE IF req[r].method = "HEAD" THEN Response(200, <<>>)
                  ELSE Response(405, <<>>)

C4_Witness ==
    \E r \in Reqs :
        /\ Fresh(r) /\ ~UnderAssets(req[r].path) /\ req[r].method = "POST"
        /\ req[r].resp.status = 405

C6_OneHandler ==
    \A r \in Reqs :
        IF req[r].pc \in {"idle", "recv"}
        THEN req[r].handledBy = {}
        ELSE req[r].handledBy =
                IF UnderAssets(req[r].path) THEN {"asset"} ELSE {"fallback"}

C6_Witness ==
    \E r, q \in Reqs :
        /\ Done(r) /\ req[r].handledBy = {"asset"}
        /\ Done(q) /\ req[q].handledBy = {"fallback"} /\ req[q].path = <<"assets.js">>

\* C7: the response of every fallback request is computed from the state
\* dist/index.html has at the step in which that request reads it.
C7_NotCached ==
    [][\A r \in Reqs :
          (req[r].pc = "index_read" /\ req'[r].pc = "done")
              => req'[r].resp =
                    Response(200, IF req[r].method = "GET"
                                  THEN EntryDocument(index) ELSE <<>>)]_vars

\* Two answered fallback requests with different bodies: the file changed
\* between their reads.
C7_Witness ==
    \E r, q \in Reqs :
        /\ Done(q) /\ req[q].stale /\ req[q].handledBy = {"fallback"}
        /\ Fresh(r) /\ req[r].handledBy = {"fallback"}
        /\ req[r].method = "GET" /\ req[q].method = "GET"
        /\ req[r].resp.body # req[q].resp.body
        /\ req[r].resp.body = EntryDocument(index)

\* C8: two requests with the same method and path, both answered from the
\* filesystem as it is now, have the same response.
C8_Idempotent ==
    \A r, q \in Reqs :
        (/\ Fresh(r) /\ Fresh(q)
         /\ req[r].method = req[q].method /\ req[r].path = req[q].path)
            => req[r].resp = req[q].resp

C8_Witness ==
    \E r, q \in Reqs :
        /\ r # q /\ Fresh(r) /\ Fresh(q)
        /\ req[r].method = "GET" /\ req[q].method = "GET"
        /\ req[r].path = req[q].path
        /\ req[r].resp.status = 200 /\ req[r].resp.body # <<>>

\* C9: under an unchanged filesystem a request handled among others gets the
\* response the router gives it alone, and the next step of a request in flight
\* is enabled whatever the other requests are doing.
C9_Independent ==
    \A r \in Reqs :
        /\ Fresh(r) => req[r].resp = Serve(req[r].method, req[r].path, index, assets)
        /\ req[r].pc = "recv" => ENABLED (RouteAssets(r) \/ RouteFallback(r))
        /\ req[r].pc = "asset_read" => ENABLED ServeDirRead(r)
        /\ req[r].pc = "index_read" => ENABLED CallServeIndex(r)

C9_Witness ==
    \E r, q \in Reqs :
        /\ r # q
        /\ Fresh(r) /\ req[r].resp.status = 200
        /\ req[q].pc = "index_read"

\* C10: a step in which a request advances leaves dist/index.html and dist/assets
\* as they were, and a connection slot between requests holds nothing.
C10_ReadOnly ==
    [][/\ (\E r \in Reqs : req'[r].pc # req[r].pc)
            => (index' = index /\ assets' = assets)
       /\ \A r \in Reqs : req'[r].pc = "idle" => req'[r] = Idle]_vars

C10_Witness ==
    \E r, q \in Reqs :
        /\ Fresh(r) /\ req[r].handledBy = {"fallback"} /\ req[r].resp.body = ErrorBody
        /\ index = Absent
        /\ Fresh(q) /\ req[q].resp.status = 404
        /\ assets["app.js"] = Absent

====
